---- MODULE Spec2Model ----
(***************************************************************************)
(* Model of the quad9 DNS-over-HTTPS provider client                       *)
(* (src/provider/quad9/quad9.go).                                          *)
(*                                                                         *)
(* The Provider holds the active provides-mode and a transport handle.     *)
(* SetProvides validates a mode against the Upstream registry.  ECSQuery   *)
(* normalises its inputs, issues one GET through the transport, reads and  *)
(* decodes the body and applies the Status policy.  Each caller of         *)
(* Query/ECSQuery is a process whose position in ECSQuery is pc[q] and     *)
(* whose Go locals are the per-caller variables below.                     *)
(*                                                                         *)
(* Strings that the code trims are sequences of chunks, a chunk being      *)
(* either one white-space character or a maximal run of other characters.  *)
(***************************************************************************)
EXTENDS Integers, Sequences, FiniteSets, TLC

VARIABLES
    provides,   \* Provider.provides
    xhttp,      \* Provider.xhttp, the transport handle
    spRet,      \* the last SetProvides call: its argument and returned error
    lastOK,     \* history: the mode of the last SetProvides that returned nil
    pc,         \* per caller: position in ECSQuery
    args,       \* per caller: the arguments d, t, s of its current or last call
    ctx,        \* per caller: state of the context it supplied
    frame,      \* per caller: ECSQuery's locals name, param, url, rsp, buf, rr
    ret,        \* per caller: the returned pair (*dns.Response, error)
    gets,       \* per caller: GET requests issued by its current or last call
    closes      \* per caller: rsp.Close invocations of its current or last call

vars == <<provides, xhttp, spRet, lastOK, pc, args, ctx, frame, ret, gets, closes>>

client == <<provides, xhttp>>
locals == <<pc, args, ctx, frame, ret, gets, closes>>

-----------------------------------------------------------------------------
(* Bounds of the model *)

\* concurrent callers of Query/ECSQuery in ConcSpec
NumCallers == 2
\* SetProvides arguments range over ExtraModes values on each side of the
\* registered ones
ExtraModes == 1
\* decoded Status values range over -MaxStatus..MaxStatus
MaxStatus == 2

Callers == 1..NumCallers

-----------------------------------------------------------------------------
(* The Upstream registry *)

DefaultProvides == 0
SecuredProvides == 1
UnsecuredProvides == 2

Upstream == [m \in {DefaultProvides, SecuredProvides, UnsecuredProvides} |->
               CASE m = DefaultProvides   -> "https://9.9.9.9/dns-query"
                 [] m = SecuredProvides   -> "https://dns9.quad9.net/dns-query"
                 [] m = UnsecuredProvides -> "https://dns10.quad9.net/dns-query"]

\* Upstream[p] as a Go map index: the zero value "" for an absent key
UpstreamAt(p) == IF p \in DOMAIN Upstream THEN Upstream[p] ELSE ""

ModeArgs == (DefaultProvides - ExtraModes)..(UnsecuredProvides + ExtraModes)

-----------------------------------------------------------------------------
(* Values *)

\* Go's nil, and a local that holds nothing yet
Nil == [nil |-> TRUE]

NoErr == [kind |-> "nil", code |-> 0]
Err(kind, code) == [kind |-> kind, code |-> code]

\* String returns string of provider
String == "quad9"

-----------------------------------------------------------------------------
(* Input normalisation: strings.TrimSpace, idna.ToASCII, xip.FixSubnet *)

WhiteSpace == {" ", "\t", "\n"}

RECURSIVE TrimLeft(_)
TrimLeft(s) ==
    IF s = <<>> THEN <<>>
    ELSE IF Head(s) \in WhiteSpace THEN TrimLeft(Tail(s)) ELSE s

RECURSIVE TrimRight(_)
TrimRight(s) ==
    IF s = <<>> THEN <<>>
    ELSE IF s[Len(s)] \in WhiteSpace THEN TrimRight(SubSeq(s, 1, Len(s) - 1)) ELSE s

TrimSpace(s) == TrimRight(TrimLeft(s))

\* names whose "xn--" label does not decode as punycode
BadNames == {"xn--<U+4F8B>.jp"}

\* the ASCII-compatible form of one chunk
Puny(c) == IF c = "<U+4F8B><U+3048>.jp" THEN "xn--r8jz45g.jp" ELSE c

\* idna.ToASCII: (string, error)
ToASCII(s) ==
    IF \E i \in 1..Len(s) : s[i] \in BadNames
      THEN [val |-> s, err |-> Err("idna", 0)]
      ELSE [val |-> [i \in 1..Len(s) |-> Puny(s[i])], err |-> NoErr]

\* canonical CIDR form of the parseable subnets
Cidr(c) ==
    CASE c = "1.2.3.4"    -> "1.2.3.4/32"
      [] c = "10.0.0.0/8" -> "10.0.0.0/8"
      [] OTHER            -> ""

\* xip.FixSubnet: (string, error)
FixSubnet(ss) ==
    IF Len(ss) = 1 /\ Cidr(ss[1]) # ""
      THEN [val |-> <<Cidr(ss[1])>>, err |-> NoErr]
      ELSE [val |-> <<>>, err |-> Err("subnet", 0)]

-----------------------------------------------------------------------------
(* The transport and the decoder *)

Statuses == (0 - MaxStatus)..MaxStatus

\* JSON objects of the wire shape: keys "Status" and "provider", each optional
Docs(St) ==
    {[Status |-> st] : st \in St}
      \cup {[Status |-> st, provider |-> "cloudflare"] : st \in St}
      \cup {[provider |-> "cloudflare"], <<>>}

\* response bodies: a JSON object, or bytes that do not decode
Bodies(St) == {[wellformed |-> TRUE, doc |-> d] : d \in Docs(St)}
                \cup {[wellformed |-> FALSE, doc |-> <<>>]}

\* xhttp.Get's return (rsp, err) under context state c
Transport(c, B) ==
    IF c = "canceled"
      THEN {[rsp |-> Nil, err |-> Err("canceled", 0)]}
      ELSE {[rsp |-> Nil, err |-> Err("transport", 0)]}
             \cup {[rsp |-> [body |-> b], err |-> NoErr] : b \in B}

\* json.Decoder.Decode of object doc into struct v: a key that is present
\* sets its field, an absent key leaves the field as it was
JsonDecode(doc, v) ==
    [Provider |-> IF "provider" \in DOMAIN doc THEN doc.provider ELSE v.Provider,
     Status   |-> IF "Status" \in DOMAIN doc THEN doc.Status ELSE v.Status]

-----------------------------------------------------------------------------
(* Inputs *)

Domains == { <<"example.com">>,
             <<" ">>,
             <<" ", "<U+4F8B><U+3048>.jp", "\t">>,
             <<"xn--<U+4F8B>.jp", " ">> }
Types == { <<"A">>, <<" ", "AAAA", "\n">> }
Subnets == { <<>>, <<" ">>, <<" ", "1.2.3.4">>, <<"10.0.0.0/8">>, <<"not-an-ip", " ">> }

ConcDomains == { <<" ", "<U+4F8B><U+3048>.jp", "\t">>, <<"xn--<U+4F8B>.jp", " ">> }
ConcTypes == { <<"A">> }
ConcSubnets == { <<" ", "1.2.3.4">> }
ConcModes == {UnsecuredProvides}
ConcBodies == { [wellformed |-> TRUE, doc |-> [Status |-> 0]],
                [wellformed |-> TRUE, doc |-> [Status |-> MaxStatus, provider |-> "cloudflare"]],
                [wellformed |-> FALSE, doc |-> <<>>] }

-----------------------------------------------------------------------------
(* SetProvides *)

\* SetProvides without the registry check
SetProvidesUnchecked(p) ==
    /\ provides' = p
    /\ spRet' = [called |-> TRUE, p |-> p, err |-> NoErr]
    /\ lastOK' = p
    /\ UNCHANGED <<xhttp, locals>>

\* SetProvides that assigns the mode before it checks the registry
SetProvidesAssignFirst(p) ==
    /\ provides' = p
    /\ spRet' = [called |-> TRUE, p |-> p,
                 err |-> IF p \notin DOMAIN Upstream
                           THEN Err("not supported provides", p) ELSE NoErr]
    /\ lastOK' = IF spRet'.err = NoErr THEN p ELSE lastOK
    /\ UNCHANGED <<xhttp, locals>>

SetProvides(p) ==
    /\ IF p \notin DOMAIN Upstream
         THEN /\ spRet' = [called |-> TRUE, p |-> p,
                           err |-> Err("not supported provides", p)]
              /\ provides' = provides
         ELSE /\ provides' = p
              /\ spRet' = [called |-> TRUE, p |-> p, err |-> NoErr]
    /\ lastOK' = IF spRet'.err = NoErr THEN p ELSE lastOK
    /\ UNCHANGED <<xhttp, locals>>

-----------------------------------------------------------------------------
(* ECSQuery *)

\* the locals of a call that has not assigned them yet, or has returned
NoFrame == [name |-> <<>>, param |-> Nil, url |-> "", rsp |-> Nil, buf |-> Nil,
            rr |-> Nil]

\* a caller enters ECSQuery(ctx, d, t, s) with a live context
ECSQuery(q, d, t, s) ==
    /\ pc[q] \in {"idle", "done"}
    /\ pc' = [pc EXCEPT ![q] = "name"]
    /\ args' = [args EXCEPT ![q] = [d |-> d, t |-> t, s |-> s]]
    /\ ctx' = [ctx EXCEPT ![q] = "live"]
    /\ frame' = [frame EXCEPT ![q] = NoFrame]
    /\ ret' = [ret EXCEPT ![q] = Nil]
    /\ gets' = [gets EXCEPT ![q] = 0]
    /\ closes' = [closes EXCEPT ![q] = 0]
    /\ UNCHANGED <<client, spRet, lastOK>>

\* Query do DoH query: ECSQuery with the empty subnet
Query(q, d, t) == ECSQuery(q, d, t, <<>>)

\* the caller's context is canceled or times out while the call is under way
CtxCancel(q) ==
    /\ pc[q] \in {"name", "param", "get", "inflight"}
    /\ ctx[q] = "live"
    /\ ctx' = [ctx EXCEPT ![q] = "canceled"]
    /\ UNCHANGED <<client, spRet, lastOK, pc, args, frame, ret, gets, closes>>

\* return rv, err: the call's locals are gone
Return(q, rv, err) ==
    /\ pc' = [pc EXCEPT ![q] = "done"]
    /\ ret' = [ret EXCEPT ![q] = [rsp |-> rv, err |-> err]]
    /\ frame' = [frame EXCEPT ![q] = NoFrame]

\* the call goes on at position l with its locals now f
Goto(q, l, f) ==
    /\ pc' = [pc EXCEPT ![q] = l]
    /\ frame' = [frame EXCEPT ![q] = f]
    /\ ret' = ret

\* defer rsp.Close(), run when the call returns
DeferredClose(q) == closes' = [closes EXCEPT ![q] = @ + 1]

\* name := TrimSpace(d); name, err := idna.ToASCII(name)
ConvertName(q) ==
    /\ pc[q] = "name"
    /\ LET r == ToASCII(TrimSpace(args[q].d)) IN
         IF r.err # NoErr
           THEN Return(q, Nil, r.err)
           ELSE Goto(q, "param", [frame[q] EXCEPT !.name = r.val])
    /\ UNCHANGED <<client, spRet, lastOK, args, ctx, gets, closes>>

\* param := {name, type}; the trimmed subnet, when not empty, is normalised
\* and added as edns_client_subnet
BuildParam(q) ==
    /\ pc[q] = "param"
    /\ LET base == [name |-> frame[q].name, type |-> TrimSpace(args[q].t)]
           ss   == TrimSpace(args[q].s)
           r    == FixSubnet(ss)
       IN  IF ss # <<>>
             THEN IF r.err # NoErr
                    THEN Return(q, Nil, r.err)
                    ELSE Goto(q, "get", [frame[q] EXCEPT !.param =
                                [name |-> base.name, type |-> base.type,
                                 edns_client_subnet |-> r.val]])
             ELSE Goto(q, "get", [frame[q] EXCEPT !.param = base])
    /\ UNCHANGED <<client, spRet, lastOK, args, ctx, gets, closes>>

\* Get that always targets the default upstream
GetDefaultUpstream(q) ==
    /\ pc[q] = "get"
    /\ Goto(q, "inflight", [frame[q] EXCEPT !.url = Upstream[DefaultProvides]])
    /\ gets' = [gets EXCEPT ![q] = @ + 1]
    /\ UNCHANGED <<client, spRet, lastOK, args, ctx, closes>>

\* c.xhttp.Get(Upstream[c.provides], param, ctx, ...): the request goes out
Get(q) ==
    /\ pc[q] = "get"
    /\ Goto(q, "inflight", [frame[q] EXCEPT !.url = UpstreamAt(provides)])
    /\ gets' = [gets EXCEPT ![q] = @ + 1]
    /\ UNCHANGED <<client, spRet, lastOK, args, ctx, closes>>

\* GetReturn that tries the request again after a transport failure
GetReturnRetry(q, B) ==
    /\ pc[q] = "inflight"
    /\ \E o \in Transport(ctx[q], B) :
         IF o.err # NoErr
           THEN Goto(q, "get", frame[q])
           ELSE Goto(q, "read", [frame[q] EXCEPT !.rsp = o.rsp])
    /\ UNCHANGED <<client, spRet, lastOK, args, ctx, gets, closes>>

\* GetReturn of a request that was sent without the caller's context
GetReturnNoCtx(q, B) ==
    /\ pc[q] = "inflight"
    /\ \E o \in Transport("live", B) :
         IF o.err # NoErr
           THEN Return(q, Nil, o.err)
           ELSE Goto(q, "read", [frame[q] EXCEPT !.rsp = o.rsp])
    /\ UNCHANGED <<client, spRet, lastOK, args, ctx, gets, closes>>

\* rsp, err := Get(...) comes back; if err != nil { return nil, err }
GetReturn(q, B) ==
    /\ pc[q] = "inflight"
    /\ \E o \in Transport(ctx[q], B) :
         IF o.err # NoErr
           THEN Return(q, Nil, o.err)
           ELSE Goto(q, "read", [frame[q] EXCEPT !.rsp = o.rsp])
    /\ UNCHANGED <<client, spRet, lastOK, args, ctx, gets, closes>>

\* ReadBody that keeps the bytes in one buffer shared by all calls
ReadBodyShared(q) ==
    /\ pc[q] = "read"
    /\ \E ok \in BOOLEAN :
         IF ok
           THEN /\ pc' = [pc EXCEPT ![q] = "decode"]
                /\ frame' = [r \in Callers |->
                               IF r = q \/ pc[r] = "decode"
                                 THEN [frame[r] EXCEPT !.buf = frame[q].rsp.body]
                                 ELSE frame[r]]
                /\ UNCHANGED <<ret, closes>>
           ELSE /\ Return(q, Nil, Err("read", 0))
                /\ DeferredClose(q)
    /\ UNCHANGED <<client, spRet, lastOK, args, ctx, gets>>

\* defer rsp.Close(); buf, err := rsp.Bytes(); if err != nil { return nil, err }
ReadBody(q) ==
    /\ pc[q] = "read"
    /\ \E ok \in BOOLEAN :
         IF ok
           THEN /\ Goto(q, "decode", [frame[q] EXCEPT !.buf = frame[q].rsp.body])
                /\ closes' = closes
           ELSE /\ Return(q, Nil, Err("read", 0))
                /\ DeferredClose(q)
    /\ UNCHANGED <<client, spRet, lastOK, args, ctx, gets>>

\* Decode whose failure return skips the Close
DecodeNoClose(q) ==
    /\ pc[q] = "decode"
    /\ LET stamped == [Provider |-> String, Status |-> 0] IN
         IF frame[q].buf.wellformed
           THEN Goto(q, "status", [frame[q] EXCEPT !.rr =
                                     JsonDecode(frame[q].buf.doc, stamped)])
           ELSE Return(q, Nil, Err("decode", 0))
    /\ UNCHANGED <<client, spRet, lastOK, args, ctx, gets, closes>>

\* Decode whose failure return hands out the half-built response
DecodeReturnsPartial(q) ==
    /\ pc[q] = "decode"
    /\ LET stamped == [Provider |-> String, Status |-> 0] IN
         IF frame[q].buf.wellformed
           THEN /\ Goto(q, "status", [frame[q] EXCEPT !.rr =
                                        JsonDecode(frame[q].buf.doc, stamped)])
                /\ closes' = closes
           ELSE /\ Return(q, stamped, Err("decode", 0))
                /\ DeferredClose(q)
    /\ UNCHANGED <<client, spRet, lastOK, args, ctx, gets>>

\* rr := &dns.Response{Provider: c.String()}; err = Decode(rr);
\* if err != nil { return nil, err }
Decode(q) ==
    /\ pc[q] = "decode"
    /\ LET stamped == [Provider |-> String, Status |-> 0] IN
         IF frame[q].buf.wellformed
           THEN /\ Goto(q, "status", [frame[q] EXCEPT !.rr =
                                        JsonDecode(frame[q].buf.doc, stamped)])
                /\ closes' = closes
           ELSE /\ Return(q, Nil, Err("decode", 0))
                /\ DeferredClose(q)
    /\ UNCHANGED <<client, spRet, lastOK, args, ctx, gets>>

\* CheckStatus that treats only a positive Status as a failure
CheckStatusPositive(q) ==
    /\ pc[q] = "status"
    /\ IF frame[q].rr.Status > 0
         THEN Return(q, frame[q].rr, Err("failed response code", frame[q].rr.Status))
         ELSE Return(q, frame[q].rr, NoErr)
    /\ DeferredClose(q)
    /\ UNCHANGED <<client, spRet, lastOK, args, ctx, gets>>

\* if rr.Status != 0 { return rr, failed response code }; return rr, nil
CheckStatus(q) ==
    /\ pc[q] = "status"
    /\ IF frame[q].rr.Status # 0
         THEN Return(q, frame[q].rr, Err("failed response code", frame[q].rr.Status))
         ELSE Return(q, frame[q].rr, NoErr)
    /\ DeferredClose(q)
    /\ UNCHANGED <<client, spRet, lastOK, args, ctx, gets>>

-----------------------------------------------------------------------------
(* Specifications *)

\* New returns a new quad9 provider client; no caller has called yet
Init ==
    /\ provides = DefaultProvides
    /\ xhttp = "xhttp"
    /\ spRet = [called |-> FALSE, p |-> DefaultProvides, err |-> NoErr]
    /\ lastOK = DefaultProvides
    /\ pc = [q \in Callers |-> "idle"]
    /\ args = [q \in Callers |-> Nil]
    /\ ctx = [q \in Callers |-> "live"]
    /\ frame = [q \in Callers |-> NoFrame]
    /\ ret = [q \in Callers |-> Nil]
    /\ gets = [q \in Callers |-> 0]
    /\ closes = [q \in Callers |-> 0]

\* the steps of caller q inside ECSQuery
Step(q, B) ==
    \/ ConvertName(q)
    \/ BuildParam(q)
    \/ Get(q)
    \/ GetReturn(q, B)
    \/ ReadBody(q)
    \/ Decode(q)
    \/ CheckStatus(q)

\* one caller, SetProvides interleaved with its queries
Next ==
    \/ \E p \in ModeArgs : SetProvides(p)
    \/ \E d \in Domains, t \in Types : Query(1, d, t)
    \/ \E d \in Domains, t \in Types, s \in Subnets : ECSQuery(1, d, t, s)
    \/ CtxCancel(1)
    \/ Step(1, Bodies(Statuses))

Spec == Init /\ [][Next]_vars

\* several callers on the same Provider
NextConc ==
    \/ \E p \in ConcModes : SetProvides(p)
    \/ \E q \in Callers, d \in ConcDomains, t \in ConcTypes : Query(q, d, t)
    \/ \E q \in Callers, d \in ConcDomains, t \in ConcTypes, s \in ConcSubnets :
         ECSQuery(q, d, t, s)
    \/ \E q \in Callers : Step(q, ConcBodies)

ConcSpec == Init /\ [][NextConc]_vars

\* one caller whose steps, and whose transport, are not delayed forever
LiveSpec == Spec /\ WF_vars(Step(1, Bodies(Statuses)))

-----------------------------------------------------------------------------
(* Properties *)

Urls == {Upstream[m] : m \in DOMAIN Upstream}

\* C1: in every reachable state the active provides-mode is a key of the
\* Upstream registry, and every request that went out was sent to a
\* registered, non-empty URL.
ModeRegistered ==
    /\ provides \in DOMAIN Upstream
    /\ \A q \in Callers :
         pc[q] \in {"inflight", "read", "decode", "status"}
           => frame[q].url \in Urls /\ frame[q].url # ""

\* a request is in flight to a non-default upstream after an unregistered
\* mode was refused
ModeRegisteredWitness ==
    /\ spRet.called /\ spRet.p \notin DOMAIN Upstream
    /\ provides = UnsecuredProvides
    /\ pc[1] = "inflight" /\ frame[1].url = Upstream[UnsecuredProvides]

\* C2: a SetProvides call with a value that is not a key of Upstream returns
\* the "not supported provides" error and leaves the active mode as it was.
RejectKeepsMode ==
    [][(spRet' # spRet /\ spRet'.p \notin DOMAIN Upstream)
         => /\ spRet'.err = Err("not supported provides", spRet'.p)
            /\ spRet'.err # NoErr
            /\ provides' = provides]_vars

\* an unregistered value was refused while a non-default mode was active
RejectKeepsModeWitness ==
    /\ spRet.called /\ spRet.p \notin DOMAIN Upstream /\ spRet.err # NoErr
    /\ provides = SecuredProvides

StatusPolicy ==
    [][\A q \in Callers :
         /\ (pc[q] = "decode" /\ pc'[q] # "decode" /\ frame[q].buf.wellformed)
              => /\ pc'[q] = "status"
                 /\ frame'[q].rr.Status =
                      IF "Status" \in DOMAIN frame[q].buf.doc
                        THEN frame[q].buf.doc.Status ELSE 0
         /\ (pc[q] = "status" /\ pc'[q] # "status")
              => /\ pc'[q] = "done"
                 /\ ret'[q].rsp = frame[q].rr
                 /\ ret'[q].rsp # Nil
                 /\ (ret'[q].err = NoErr) <=> (frame[q].rr.Status = 0)
                 /\ frame[q].rr.Status # 0
                      => ret'[q].err = Err("failed response code", frame[q].rr.Status)]_vars

\* a call returned a response with a negative Status together with the
\* error carrying that Status
StatusPolicyWitness ==
    /\ pc[1] = "done" /\ ret[1].rsp # Nil
    /\ ret[1].rsp.Status < 0
    /\ ret[1].err = Err("failed response code", ret[1].rsp.Status)

\* C5: every response ECSQuery returns carries the provider tag "quad9",
\* also when the body itself has a provider field.
ProviderStamped ==
    \A q \in Callers :
      (pc[q] = "done" /\ ret[q].rsp # Nil) => ret[q].rsp.Provider = String

\* C6: a call issues no GET when the domain fails the IDNA conversion or the
\* trimmed, non-empty subnet fails normalisation, and exactly one GET in
\* every other case.
OneGetPerCall ==
    \A q \in Callers :
      /\ gets[q] <= 1
      /\ pc[q] = "done"
           => LET ss == TrimSpace(args[q].s)
                  bad == \/ ToASCII(TrimSpace(args[q].d)).err # NoErr
                         \/ (ss # <<>> /\ FixSubnet(ss).err # NoErr)
              IN  gets[q] = IF bad THEN 0 ELSE 1

\* a call failed on the transport after its single GET
OneGetPerCallWitness ==
    pc[1] = "done" /\ ret[1].err = Err("transport", 0) /\ gets[1] = 1

\* C7: a call that got a response object from the GET has invoked its Close
\* exactly once when it returns, whichever way it returns; a call whose GET
\* failed or was never issued invokes no Close.
CloseOnce ==
    [][\A q \in Callers :
         /\ closes'[q] <= 1
         /\ pc'[q] # "done" => closes'[q] = 0
         /\ (pc[q] # "done" /\ pc'[q] = "done")
              => closes'[q] = IF frame[q].rsp # Nil THEN 1 ELSE 0]_vars

\* a call whose body did not decode returned with its response closed
CloseOnceWitness ==
    pc[1] = "done" /\ ret[1].err = Err("decode", 0) /\ closes[1] = 1

\* C8: a call that fails with a name-encoding, subnet-format, transport,
\* body-read or decode error returns a nil response and a non-nil error;
\* only the non-zero-status failure returns a response and an error together.
NilOnFailure ==
    \A q \in Callers :
      pc[q] = "done"
        => /\ ret[q].err.kind \in {"idna", "subnet", "transport", "canceled",
                                   "read", "decode"}
                => ret[q].rsp = Nil
           /\ ret[q].rsp = Nil => ret[q].err # NoErr
           /\ (ret[q].rsp # Nil /\ ret[q].err # NoErr)
                => /\ ret[q].err.kind = "failed response code"
                   /\ ret[q].rsp.Status # 0

\* a call whose body could not be read returned no response
NilOnFailureWitness ==
    pc[1] = "done" /\ ret[1].err = Err("read", 0) /\ ret[1].rsp = Nil

\* C9: when the caller's context is canceled while the request is in flight,
\* the call eventually returns, and what it returns is a nil response with
\* the cancellation error of the transport, no body being read or decoded.
CancelReturns ==
    /\ (pc[1] = "inflight" /\ ctx[1] = "canceled")
         ~> (pc[1] = "done" /\ ret[1] = [rsp |-> Nil, err |-> Err("canceled", 0)])
    /\ [][(pc[1] = "inflight" /\ ctx[1] = "canceled" /\ pc'[1] # "inflight")
            => /\ pc'[1] = "done"
               /\ ret'[1] = [rsp |-> Nil, err |-> Err("canceled", 0)]
               /\ closes'[1] = 0]_vars

\* a call whose context was canceled returned the cancellation error after
\* its request went out
CancelReturnsWitness ==
    /\ pc[1] = "done" /\ ctx[1] = "canceled" /\ gets[1] = 1
    /\ ret[1] = [rsp |-> Nil, err |-> Err("canceled", 0)]

\* the request parameters of a call with arguments a, run on its own
AloneParam(a) ==
    LET base == [name |-> ToASCII(TrimSpace(a.d)).val, type |-> TrimSpace(a.t)]
        ss   == TrimSpace(a.s)
    IN  IF ss = <<>> THEN base
        ELSE [name |-> base.name, type |-> base.type,
              edns_client_subnet |-> FixSubnet(ss).val]

\* the result of a call with arguments a, run on its own, when the transport
\* answers o and the body read succeeds or not
AloneResult(a, o, readOk) ==
    LET n  == ToASCII(TrimSpace(a.d))
        ss == TrimSpace(a.s)
        r  == JsonDecode(o.rsp.body.doc, [Provider |-> String, Status |-> 0])
    IN  CASE n.err # NoErr -> [rsp |-> Nil, err |-> n.err]
          [] n.err = NoErr /\ ss # <<>> /\ FixSubnet(ss).err # NoErr
               -> [rsp |-> Nil, err |-> FixSubnet(ss).err]
          [] OTHER ->
               IF o.err # NoErr THEN [rsp |-> Nil, err |-> o.err]
               ELSE IF ~readOk THEN [rsp |-> Nil, err |-> Err("read", 0)]
               ELSE IF ~o.rsp.body.wellformed THEN [rsp |-> Nil, err |-> Err("decode", 0)]
               ELSE IF r.Status # 0
                      THEN [rsp |-> r, err |-> Err("failed response code", r.Status)]
                      ELSE [rsp |-> r, err |-> NoErr]

\* C10: with several callers inside Query/ECSQuery at once, no step of a
\* query writes the client's mode or transport handle or another call's
\* locals, and every call's parameters, target URL and result are those of
\* the same call run on its own with the same transport answer.
ConcurrentSafe ==
    [][\A q \in Callers :
         pc'[q] # pc[q]
           => /\ client' = client
              /\ \A r \in Callers \ {q} :
                   <<pc'[r], args'[r], ctx'[r], frame'[r], ret'[r], gets'[r], closes'[r]>>
                     = <<pc[r], args[r], ctx[r], frame[r], ret[r], gets[r], closes[r]>>
              /\ pc'[q] \in {"get", "inflight", "read", "decode", "status"}
                   => frame'[q].param = AloneParam(args'[q])
              /\ pc'[q] = "inflight" => frame'[q].url = Upstream[provides]
              /\ pc'[q] \in {"read", "decode", "status"} => frame'[q].url = frame[q].url
              /\ (pc[q] # "idle" /\ pc'[q] = "done")
                   => /\ pc[q] = "inflight"
                        => ret'[q].err \in {Err("transport", 0), Err("canceled", 0)}
                      /\ ret'[q] = AloneResult(args[q],
                                      IF pc[q] = "inflight"
                                        THEN [rsp |-> Nil, err |-> ret'[q].err]
                                        ELSE [rsp |-> frame[q].rsp, err |-> NoErr],
                                      pc[q] # "read")]_vars

\* two calls under way at once, with different parameters and different
\* target URLs, one of them after another call has failed
ConcurrentSafeWitness ==
    /\ pc[1] = "inflight" /\ pc[2] = "status"
    /\ frame[1].url # frame[2].url
    /\ frame[1].param # frame[2].param
    /\ provides = UnsecuredProvides
====
